---- MODULE Spec2Model ----
(***************************************************************************)
(* UserService (app/services/user_service.py): create, login,              *)
(* is_superuser and delete_user, run by concurrent requests against one    *)
(* shared user store.  Every repository call is one step of a request, so  *)
(* the steps of different requests interleave between the calls.           *)
(***************************************************************************)
EXTENDS Integers, FiniteSets, Sequences, TLC

\* ------------------------------------------------------------------ bounds
MaxUsers == 3       \* ids the store hands out in one run

\* Two requests, each served by its own UserService over the shared store:
\* the handlers of one interleave with the handlers of the other.
Procs == {1, 2}
Ids == 1..MaxUsers

\* ------------------------------------------------------------ input values
Usernames == {"alice", "bob"}
Emails == {"a@x.com", "b@x.com", "not-an-email"}
Passwords == {"Str0ng!Pass", "weak"}

UserIn == [username : Usernames, email : Emails, password : Passwords]
UserLogin == [username : Usernames, password : Passwords]

None == [none |-> TRUE]

VARIABLES users, nextId, pc, req, usr, res, registered

vars == <<users, nextId, pc, req, usr, res, registered>>

\* ------------------------------------------------ collaborators (core.*)
\* core.security.get_password_hash: a one-way digest, never the plaintext.
get_password_hash(password) == "$hash$" \o password

\* core.security.pwd_context.verify
verify(password, hashed) == get_password_hash(password) = hashed

\* core.security.create_access_token: the claims and the lifetime, signed.
create_access_token(data, expires_delta) ==
    [claims |-> data, expires_delta |-> expires_delta]

\* core.password_validator.validate_password / core.email_validator.validate_email
password_ok(password) == password \in {"Str0ng!Pass"}

email_ok(email) == email \in {"a@x.com", "b@x.com"}

InvalidInputError(reason) == [exc |-> "InvalidInput", detail |-> reason]

\* ------------------------------------------- UserRepository (the store)
user_exists_by_email(store, email) == \E u \in store : u.email = email

user_exists_by_username(store, username) == \E u \in store : u.username = username

user_exists_by_id(store, id) == \E u \in store : u.id = id

get_user_by_username(store, username) ==
    IF user_exists_by_username(store, username)
    THEN CHOOSE u \in store : u.username = username
    ELSE None

get_user_object_by_id(store, id) ==
    IF user_exists_by_id(store, id)
    THEN CHOOSE u \in store : u.id = id
    ELSE None

\* repository.create(data, hashed_password): the row of a registered user; a
\* candidate carries no superuser flag, the row starts without the privilege.
NewUser(id, data, hashed_password) ==
    [id |-> id, username |-> data.username, email |-> data.email,
     hashed_password |-> hashed_password, is_superuser |-> FALSE]

\* A store without the constraint: every insert goes through.
UniqueViolation_Unconstrained(store, data) == FALSE

\* The store's uniqueness constraint on username and email.
UniqueViolation(store, data) ==
    \/ user_exists_by_email(store, data.email)
    \/ user_exists_by_username(store, data.username)

repository_delete_user(store, user) == store \ {user}

\* --------------------------------------------------------------- results
HTTPException(status_code, detail, headers) ==
    [exc |-> "HTTPException", status_code |-> status_code, detail |-> detail,
     headers |-> headers]

NoHeaders == {}

HTTP_400_BAD_REQUEST == 400
HTTP_401_UNAUTHORIZED == 401
HTTP_404_NOT_FOUND == 404

Returned(value) == [ret |-> value]

NoResult == [pending |-> TRUE]

PublicFields(u) ==
    [id |-> u.id, username |-> u.username, email |-> u.email,
     is_superuser |-> u.is_superuser]

\* The four error kinds of the interface, read off a result.
IsException(r) == "exc" \in DOMAIN r
Conflict(r) ==
    IsException(r) /\ r.exc = "HTTPException" /\ r.status_code = HTTP_400_BAD_REQUEST
InvalidInput(r) == IsException(r) /\ r.exc = "InvalidInput"
Unauthorized(r) ==
    IsException(r) /\ r.exc = "HTTPException" /\ r.status_code = HTTP_401_UNAUTHORIZED
NotFound(r) ==
    IsException(r) /\ r.exc = "HTTPException" /\ r.status_code = HTTP_404_NOT_FOUND

\* ------------------------------------------------------------ UserService
\* The two pre-checks in the other order: the username is looked up first.
EmailCheck_UsernameFirst(store, data) ==
    IF user_exists_by_username(store, data.username)
    THEN HTTPException(HTTP_400_BAD_REQUEST,
                       "Username " \o data.username \o " already registered", NoHeaders)
    ELSE IF user_exists_by_email(store, data.email)
    THEN HTTPException(HTTP_400_BAD_REQUEST,
                       "Email " \o data.email \o " already registered", NoHeaders)
    ELSE NoResult

\* create, lines 39-43: the email pre-check.
EmailCheck(store, data) ==
    IF user_exists_by_email(store, data.email)
    THEN HTTPException(HTTP_400_BAD_REQUEST,
                       "Email " \o data.email \o " already registered", NoHeaders)
    ELSE NoResult

\* The username pre-check left out.
UsernameCheck_Skipped(store, data) == NoResult

\* create, lines 44-48: the username pre-check.
UsernameCheck(store, data) ==
    IF user_exists_by_username(store, data.username)
    THEN HTTPException(HTTP_400_BAD_REQUEST,
                       "Username " \o data.username \o " already registered", NoHeaders)
    ELSE NoResult

\* create, lines 50-51: validate_password, then validate_email.
Validate(data) ==
    IF ~password_ok(data.password) THEN InvalidInputError("weak password")
    ELSE IF ~email_ok(data.email) THEN InvalidInputError("malformed email")
    ELSE NoResult

\* The plaintext handed to the store in place of the digest.
HashedPassword_Plaintext(data) == data.password

\* create, line 53.
HashedPassword(data) == get_password_hash(data.password)

\* login with the verification inverted: "or pwd_context.verify(...)".
LoginResult_VerifyInverted(store, data) ==
    LET user == get_user_by_username(store, data.username) IN
    IF user = None \/ verify(data.password, user.hashed_password)
    THEN HTTPException(HTTP_401_UNAUTHORIZED, "Incorrect username or password",
                       {<<"WWW-Authenticate", "Bearer">>})
    ELSE Returned([access_token |->
                       create_access_token([sub |-> user.username],
                                           "ACCESS_TOKEN_EXPIRE_MINUTES"),
                   token_type |-> "bearer"])

\* login that tells an unknown username from a wrong password.
LoginResult_SeparateErrors(store, data) ==
    LET user == get_user_by_username(store, data.username) IN
    IF user = None
    THEN HTTPException(HTTP_401_UNAUTHORIZED, "Incorrect username",
                       {<<"WWW-Authenticate", "Bearer">>})
    ELSE IF ~verify(data.password, user.hashed_password)
    THEN HTTPException(HTTP_401_UNAUTHORIZED, "Incorrect password",
                       {<<"WWW-Authenticate", "Bearer">>})
    ELSE Returned([access_token |->
                       create_access_token([sub |-> user.username],
                                           "ACCESS_TOKEN_EXPIRE_MINUTES"),
                   token_type |-> "bearer"])

\* login, lines 66-77: the outcome for a given store.
LoginResult(store, data) ==
    LET user == get_user_by_username(store, data.username) IN
    IF user = None \/ ~verify(data.password, user.hashed_password)
    THEN HTTPException(HTTP_401_UNAUTHORIZED, "Incorrect username or password",
                       {<<"WWW-Authenticate", "Bearer">>})
    ELSE Returned([access_token |->
                       create_access_token([sub |-> user.username],
                                           "ACCESS_TOKEN_EXPIRE_MINUTES"),
                   token_type |-> "bearer"])

\* The existence check left out.
IdCheck_Skipped(store, id) == NoResult

\* is_superuser, lines 89-92, and delete_user, lines 107-110: the id check.
IdCheck(store, id) ==
    IF ~user_exists_by_id(store, id)
    THEN HTTPException(HTTP_404_NOT_FOUND,
                       "User " \o ToString(id) \o " not found", NoHeaders)
    ELSE NoResult

\* ------------------------------------------------------------------ state
Init ==
    /\ users = {}
    /\ nextId = 1
    /\ pc = [p \in Procs |-> "idle"]
    /\ req = [p \in Procs |-> [op |-> "none"]]
    /\ usr = [p \in Procs |-> None]
    /\ res = [p \in Procs |-> NoResult]
    /\ registered = {}

\* A request arrives: the handler is entered with its argument.
Call(p, op, label, arg) ==
    /\ pc' = [pc EXCEPT ![p] = label]
    /\ req' = [req EXCEPT ![p] = [op |-> op, arg |-> arg]]
    /\ res' = [res EXCEPT ![p] = NoResult]
    /\ UNCHANGED <<users, nextId, usr, registered>>

\* The handler returns or raises: the request is over.
Finish(p, result) ==
    /\ pc' = [pc EXCEPT ![p] = "idle"]
    /\ res' = [res EXCEPT ![p] = result]
    /\ usr' = [usr EXCEPT ![p] = None]
    /\ UNCHANGED req

Goto(p, label) ==
    /\ pc' = [pc EXCEPT ![p] = label]
    /\ UNCHANGED <<req, res>>

\* Ids in use or about to be taken by a create in flight.
InCreate == {q \in Procs : pc[q] \in {"create_email", "create_username", "create_persist"}}

CallCreate(p) ==
    /\ pc[p] = "idle"
    /\ nextId + Cardinality(InCreate) <= MaxUsers
    /\ \E data \in UserIn : Call(p, "create", "create_email", data)

CallLogin(p) ==
    /\ pc[p] = "idle"
    /\ \E data \in UserLogin : Call(p, "login", "login", data)

CallIsSuperuser(p) ==
    /\ pc[p] = "idle"
    /\ \E id \in Ids : Call(p, "is_superuser", "su_check", id)

CallDeleteUser(p) ==
    /\ pc[p] = "idle"
    /\ \E id \in Ids : Call(p, "delete_user", "del_check", id)

\* create, lines 39-43.
CreateCheckEmail(p) ==
    /\ pc[p] = "create_email"
    /\ LET r == EmailCheck(users, req[p].arg) IN
       IF r # NoResult THEN Finish(p, r)
       ELSE Goto(p, "create_username") /\ UNCHANGED usr
    /\ UNCHANGED <<users, nextId, registered>>

\* create, lines 44-48.
CreateCheckUsername(p) ==
    /\ pc[p] = "create_username"
    /\ LET r == UsernameCheck(users, req[p].arg) IN
       IF r # NoResult THEN Finish(p, r)
       ELSE Goto(p, "create_persist") /\ UNCHANGED usr
    /\ UNCHANGED <<users, nextId, registered>>

\* create, lines 50-54: validate, hash, repository.create.
CreatePersist(p) ==
    /\ pc[p] = "create_persist"
    /\ LET data == req[p].arg
           v == Validate(data)
           user == NewUser(nextId, data, HashedPassword(data)) IN
       IF v # NoResult
       THEN Finish(p, v) /\ UNCHANGED <<users, nextId, registered>>
       ELSE IF UniqueViolation(users, data)
       THEN Finish(p, [exc |-> "IntegrityError", detail |-> "unique constraint"])
            /\ UNCHANGED <<users, nextId, registered>>
       ELSE /\ users' = users \cup {user}
            /\ nextId' = nextId + 1
            /\ registered' = registered \cup
                   {[id |-> user.id, username |-> data.username,
                     password |-> data.password]}
            /\ Finish(p, Returned(PublicFields(user)))

\* login, lines 66-77.
Login(p) ==
    /\ pc[p] = "login"
    /\ Finish(p, LoginResult(users, req[p].arg))
    /\ UNCHANGED <<users, nextId, registered>>

\* is_superuser, lines 89-92.
IsSuperuserCheck(p) ==
    /\ pc[p] = "su_check"
    /\ LET r == IdCheck(users, req[p].arg) IN
       IF r # NoResult THEN Finish(p, r)
       ELSE Goto(p, "su_get") /\ UNCHANGED usr
    /\ UNCHANGED <<users, nextId, registered>>

\* is_superuser, lines 94-95: user.is_superuser of what the store returned.
IsSuperuserGet(p) ==
    /\ pc[p] = "su_get"
    /\ LET user == get_user_object_by_id(users, req[p].arg) IN
       IF user = None
       THEN Finish(p, [exc |-> "AttributeError",
                       detail |-> "'NoneType' object has no attribute 'is_superuser'"])
       ELSE Finish(p, Returned(user.is_superuser))
    /\ UNCHANGED <<users, nextId, registered>>

\* delete_user, lines 107-110.
DeleteUserCheck(p) ==
    /\ pc[p] = "del_check"
    /\ LET r == IdCheck(users, req[p].arg) IN
       IF r # NoResult THEN Finish(p, r)
       ELSE Goto(p, "del_get") /\ UNCHANGED usr
    /\ UNCHANGED <<users, nextId, registered>>

\* delete_user, line 112.
DeleteUserGet(p) ==
    /\ pc[p] = "del_get"
    /\ usr' = [usr EXCEPT ![p] = get_user_object_by_id(users, req[p].arg)]
    /\ Goto(p, "del_persist")
    /\ UNCHANGED <<users, nextId, registered>>

\* delete_user returning True without the repository call of line 113.
DeleteUserPersist_NoDelete(p) ==
    /\ pc[p] = "del_persist"
    /\ Finish(p, Returned(TRUE))
    /\ UNCHANGED <<users, nextId, registered>>

\* delete_user, lines 113-114: repository.delete_user, return True.
DeleteUserPersist(p) ==
    /\ pc[p] = "del_persist"
    /\ users' = repository_delete_user(users, usr[p])
    /\ registered' = {r \in registered : user_exists_by_id(users', r.id)}
    /\ Finish(p, Returned(TRUE))
    /\ UNCHANGED nextId

Next ==
    \E p \in Procs :
        \/ CallCreate(p)
        \/ CallLogin(p)
        \/ CallIsSuperuser(p)
        \/ CallDeleteUser(p)
        \/ CreateCheckEmail(p)
        \/ CreateCheckUsername(p)
        \/ CreatePersist(p)
        \/ Login(p)
        \/ IsSuperuserCheck(p)
        \/ IsSuperuserGet(p)
        \/ DeleteUserCheck(p)
        \/ DeleteUserGet(p)
        \/ DeleteUserPersist(p)

Spec == Init /\ [][Next]_vars

\* ------------------------------------------------------------ properties
\* Request p executes the code at label in this step.
Steps(p, label) == pc[p] = label /\ pc'[p] # label

Done(p, op) == pc[p] = "idle" /\ req[p].op = op

Succeeded(r) == "ret" \in DOMAIN r

CreateLabels == {"create_email", "create_username", "create_persist"}

\* C1: in every reachable state no two user records share a username and no
\* two share an email, under every interleaving of create and delete_user
\* requests, two concurrent creates of the same username or email included.
C1_UniqueUsernamesAndEmails ==
    \A u, v \in users :
        (u.username = v.username \/ u.email = v.email) => u = v

\* Two creates of the same username or email ran side by side, both passed
\* the pre-checks, and the store let one of them in.
C1_Witness ==
    \E p, q \in Procs :
        /\ p # q /\ Done(p, "create") /\ Done(q, "create")
        /\ Succeeded(res[p])
        /\ IsException(res[q]) /\ res[q].exc = "IntegrityError"
        /\ \/ req[p].arg.username = req[q].arg.username
           \/ req[p].arg.email = req[q].arg.email
        /\ \E u \in users : u.id = res[p].ret.id

\* C2 (as claimed): a create whose password or email fails validation always
\* ends with InvalidInput and leaves the store unchanged, whatever the store
\* holds.
C2_InvalidInputWhateverTheStore ==
    [][\A p \in Procs :
        ( /\ pc[p] \in CreateLabels /\ pc'[p] = "idle"
          /\ \/ ~password_ok(req[p].arg.password)
             \/ ~email_ok(req[p].arg.email) )
        => (InvalidInput(res'[p]) /\ users' = users)]_vars

\* C3: a create whose email a stored user already has ends with Conflict,
\* reported for the email whatever the candidate's username (unused, or used
\* as well), and leaves the store unchanged.
C3_UsedEmailConflict ==
    [][\A p \in Procs :
        (Steps(p, "create_email") /\ user_exists_by_email(users, req[p].arg.email))
        => /\ pc'[p] = "idle"
           /\ Conflict(res'[p])
           /\ res'[p].detail = "Email " \o req[p].arg.email \o " already registered"
           /\ users' = users]_vars

\* A create ended with the email conflict although another stored user has
\* the candidate's username too.
C3_Witness ==
    \E p \in Procs :
        /\ Done(p, "create") /\ Conflict(res[p])
        /\ res[p].detail = "Email " \o req[p].arg.email \o " already registered"
        /\ \E u, v \in users :
               /\ u # v
               /\ u.email = req[p].arg.email
               /\ v.username = req[p].arg.username

\* C4: a create that has found its email unused and whose username a stored
\* user already has ends with Conflict, reported for the username, and leaves
\* the store unchanged.
C4_UsedUsernameConflict ==
    [][\A p \in Procs :
        (Steps(p, "create_username")
         /\ user_exists_by_username(users, req[p].arg.username))
        => /\ pc'[p] = "idle"
           /\ Conflict(res'[p])
           /\ res'[p].detail =
                  "Username " \o req[p].arg.username \o " already registered"
           /\ users' = users]_vars

C4_Witness ==
    \E p \in Procs :
        /\ Done(p, "create") /\ Conflict(res[p])
        /\ res[p].detail = "Username " \o req[p].arg.username \o " already registered"
        /\ user_exists_by_username(users, req[p].arg.username)
        /\ ~user_exists_by_email(users, req[p].arg.email)

\* C5: once create(username, email, password) has succeeded, and for as long
\* as that user is stored, login(username, password) returns a bearer token
\* bound to the username and does not raise.
C5_RegisteredCanLogin ==
    \A r \in registered :
        user_exists_by_id(users, r.id) =>
            LET out == LoginResult(users, [username |-> r.username,
                                           password |-> r.password]) IN
            /\ Succeeded(out)
            /\ out.ret.token_type = "bearer"
            /\ out.ret.access_token.claims = [sub |-> r.username]

C5_Witness ==
    \E p \in Procs :
        /\ Done(p, "login") /\ Succeeded(res[p])
        /\ res[p].ret.token_type = "bearer"
        /\ \E r \in registered :
               /\ r.username = req[p].arg.username
               /\ r.password = req[p].arg.password
               /\ user_exists_by_id(users, r.id)

\* C6: login with a stored username and a wrong password raises Unauthorized,
\* and the exception equals (status, detail, headers) the one login raises
\* for a username no stored user has.
C6_FailedLoginsIndistinguishable ==
    \A u \in users : \A pw \in Passwords :
        ~verify(pw, u.hashed_password) =>
            LET wrong == LoginResult(users, [username |-> u.username,
                                             password |-> pw]) IN
            /\ Unauthorized(wrong)
            /\ \A n \in Usernames, q \in Passwords :
                   ~user_exists_by_username(users, n) =>
                       LoginResult(users, [username |-> n, password |-> q]) = wrong

\* One login failed on a wrong password, another on an unknown username, and
\* the two raised the same exception.
C6_Witness ==
    \E p, q \in Procs :
        /\ p # q /\ Done(p, "login") /\ Done(q, "login")
        /\ \E u \in users :
               /\ u.username = req[p].arg.username
               /\ ~verify(req[p].arg.password, u.hashed_password)
        /\ ~user_exists_by_username(users, req[q].arg.username)
        /\ Unauthorized(res[p])
        /\ res[p] = res[q]

\* C7: is_superuser(id) and delete_user(id) whose existence check finds no
\* stored user with that id raise NotFound and leave the store unchanged.
C7_UnknownIdNotFound ==
    [][\A p \in Procs :
        ((Steps(p, "su_check") \/ Steps(p, "del_check"))
         /\ ~user_exists_by_id(users, req[p].arg))
        => /\ pc'[p] = "idle"
           /\ NotFound(res'[p])
           /\ users' = users]_vars

C7_Witness ==
    \E p, q \in Procs :
        /\ Done(p, "is_superuser") /\ NotFound(res[p])
        /\ Done(q, "delete_user") /\ NotFound(res[q])
        /\ ~user_exists_by_id(users, req[p].arg)
        /\ ~user_exists_by_id(users, req[q].arg)
        /\ users # {}

\* C8: a create that succeeds adds exactly one record, which carries the
\* candidate's username and email and the digest of the candidate's password,
\* not the plaintext; every record stored before is still there, unchanged.
C8_CreateAddsOneRecord ==
    [][\A p \in Procs :
        (pc[p] \in CreateLabels /\ pc'[p] = "idle" /\ Succeeded(res'[p]))
        => \E u \in users' :
               /\ u \notin users
               /\ users' = users \cup {u}
               /\ ~user_exists_by_id(users, u.id)
               /\ u.username = req[p].arg.username
               /\ u.email = req[p].arg.email
               /\ verify(req[p].arg.password, u.hashed_password)
               /\ u.hashed_password # req[p].arg.password
               /\ res'[p].ret = PublicFields(u)]_vars

\* A second user has been created next to a stored one.
C8_Witness ==
    \E p \in Procs :
        /\ Done(p, "create") /\ Succeeded(res[p])
        /\ Cardinality(users) = 2
        /\ \E u \in users :
               /\ u.id = res[p].ret.id
               /\ u.username = req[p].arg.username
               /\ u.hashed_password = get_password_hash(req[p].arg.password)

\* C9 (as claimed): is_superuser and delete_user end with NotFound or with
\* their normal result, never with another failure, also when a concurrent
\* delete_user removes the record between the existence check and the fetch.
C9_NotFoundOrNormalResult ==
    \A p \in Procs :
        (Done(p, "is_superuser") \/ Done(p, "delete_user"))
        => (NotFound(res[p]) \/ Succeeded(res[p]))

\* C10: delete_user(id) of a stored user removes that user's record and no
\* other and returns True; right after, login with the deleted username is
\* Unauthorized, the id check of is_superuser and delete_user is NotFound, and
\* both pre-checks of create pass for the deleted username and email.  An id
\* once removed is never stored again, and a username that is free stays free
\* until a create succeeds.
C10_DeleteRemovesTheUser ==
    [][/\ \A p \in Procs :
            (Steps(p, "del_persist") /\ usr[p] \in users)
            => /\ users' = users \ {usr[p]}
               /\ usr[p].id = req[p].arg
               /\ res'[p] = Returned(TRUE)
               /\ NotFound(IdCheck(users', req[p].arg))
               /\ \A pw \in Passwords :
                      Unauthorized(LoginResult(users', [username |-> usr[p].username,
                                                        password |-> pw]))
               /\ \A data \in UserIn :
                      (data.username = usr[p].username /\ data.email = usr[p].email)
                      => (EmailCheck(users', data) = NoResult
                          /\ UsernameCheck(users', data) = NoResult)
       /\ \A id \in Ids :
            (id < nextId /\ ~user_exists_by_id(users, id))
            => ~user_exists_by_id(users', id)
       /\ \A n \in Usernames :
            (~user_exists_by_username(users, n) /\ user_exists_by_username(users', n))
            => \E p \in Procs : Steps(p, "create_persist") /\ Succeeded(res'[p])
      ]_vars

\* A user was deleted and the username registered again under a new id.
C10_Witness ==
    \E p, q \in Procs :
        /\ Done(p, "delete_user") /\ res[p] = Returned(TRUE)
        /\ req[p].arg < nextId /\ ~user_exists_by_id(users, req[p].arg)
        /\ Done(q, "create") /\ Succeeded(res[q])
        /\ res[q].ret.id > req[p].arg
        /\ \E u \in users : u.id = res[q].ret.id

====
